---------------------------- MODULE Spec2Model ----------------------------
(***************************************************************************)
(* Model of the ExpenseDashboard data layer (services/data_service.py) and *)
(* of one dashboard render (main.py).                                      *)
(*                                                                         *)
(* Python strings are sequences of one-character strings, so that split(), *)
(* strip(), lower(), replace() and the f-string concatenations are         *)
(* computed character by character.  Python floats are IEEE-754 binary64   *)
(* values with the mantissa kept as a sequence of limbs.                   *)
(***************************************************************************)
EXTENDS Integers, Sequences, FiniteSets, TLC

(***************************** bounds **************************************)
\* Longest list of worksheet titles of a workbook snapshot.
MaxSheets == 3
\* Most data rows of a "Budget" sheet snapshot.
MaxBudgetRows == 2

(***************************** strings *************************************)
Digits == {"0","1","2","3","4","5","6","7","8","9"}
Uppers == <<"A","B","C","D","E","F","G","H","I","J","K","L","M",
            "N","O","P","Q","R","S","T","U","V","W","X","Y","Z">>
Lowers == <<"a","b","c","d","e","f","g","h","i","j","k","l","m",
            "n","o","p","q","r","s","t","u","v","w","x","y","z">>
\* The characters of the model in code point order (str comparison).
CodeOrder == <<" ","&",",","-","/","0","1","2","3","4","5","6","7","8","9",":">>
             \o Uppers \o Lowers

Ord(c) == CHOOSE i \in 1..Len(CodeOrder) : CodeOrder[i] = c

\* str.isspace for one character
IsSpace(c) == c \in {" ", "\t", "\n"}

\* str.lower for one character
LowerChar(c) ==
  IF \E i \in 1..Len(Uppers) : Uppers[i] = c
  THEN Lowers[CHOOSE i \in 1..Len(Uppers) : Uppers[i] = c]
  ELSE c

\* str.lower()
Lower(s) == [i \in 1..Len(s) |-> LowerChar(s[i])]

RECURSIVE LStrip(_)
LStrip(s) == IF s # <<>> /\ IsSpace(Head(s)) THEN LStrip(Tail(s)) ELSE s

RECURSIVE RStrip(_)
RStrip(s) ==
  IF s # <<>> /\ IsSpace(s[Len(s)]) THEN RStrip(SubSeq(s, 1, Len(s) - 1)) ELSE s

\* str.strip()
Strip(s) == RStrip(LStrip(s))

\* str.replace(",", "")
RemoveCommas(s) == SelectSeq(s, LAMBDA c : c # ",")

\* str.isdigit(): non-empty and every character a digit
IsDigitStr(s) == s # <<>> /\ \A i \in 1..Len(s) : s[i] \in Digits

\* str.split() from position i on, cur being the token read so far
RECURSIVE SplitFrom(_, _, _)
SplitFrom(s, i, cur) ==
  IF i > Len(s)
  THEN IF cur = <<>> THEN <<>> ELSE <<cur>>
  ELSE IF IsSpace(s[i])
       THEN IF cur = <<>> THEN SplitFrom(s, i + 1, <<>>)
                          ELSE <<cur>> \o SplitFrom(s, i + 1, <<>>)
       ELSE SplitFrom(s, i + 1, Append(cur, s[i]))

\* str.split(): the maximal runs of non-whitespace characters
Split(s) == SplitFrom(s, 1, <<>>)

\* "sub in s" for strings
Contains(s, sub) ==
  \E i \in 1..(Len(s) - Len(sub) + 1) : SubSeq(s, i, i + Len(sub) - 1) = sub

\* s < t for strings (lexicographic by code point)
RECURSIVE StrLess(_, _)
StrLess(s, t) ==
  IF t = <<>> THEN FALSE
  ELSE IF s = <<>> THEN TRUE
  ELSE IF Head(s) = Head(t) THEN StrLess(Tail(s), Tail(t))
  ELSE Ord(Head(s)) < Ord(Head(t))

\* sorted(list(S)) for a set of strings
RECURSIVE SortedStrings(_)
SortedStrings(S) ==
  IF S = {} THEN <<>>
  ELSE LET m == CHOOSE x \in S : \A y \in S : y = x \/ StrLess(x, y)
       IN <<m>> \o SortedStrings(S \ {m})

\* the value of a string of digits
RECURSIVE DigitsValue(_)
DigitsValue(s) ==
  IF s = <<>> THEN 0
  ELSE 10 * DigitsValue(SubSeq(s, 1, Len(s) - 1)) + (Ord(s[Len(s)]) - Ord("0"))

(************************ binary64 arithmetic ******************************)
(* Natural numbers beyond TLC's integers are sequences of limbs, least     *)
(* significant first, in base 2^LimbBits, without leading zero limbs.      *)
(* A non-negative Python float is FZero or [m, e]: m the mantissa, a       *)
(* number of exactly MantBits bits, e the exponent of its first bit; its   *)
(* value is m * 2^(e - (MantBits - 1)).  Every operation computes the      *)
(* exact result and rounds it to nearest, ties to even.  The amounts of    *)
(* the model are far from the overflow and subnormal ranges, and none is   *)
(* negative.                                                               *)
(***************************************************************************)
MantBits == 53
LimbBits == 11
\* fraction limbs computed by a division: enough for MantBits + 2 bits of
\* any quotient n / d with d < 2^20
DivLimbs == 8

Base == 2^LimbBits

\* the number of bits of a natural number below 2^30
BitLen(n) == CHOOSE k \in 0..30 : (k = 0 \/ 2^(k - 1) <= n) /\ n < 2^k

RECURSIVE Trim(_)
Trim(a) == IF a # <<>> /\ a[Len(a)] = 0 THEN Trim(SubSeq(a, 1, Len(a) - 1)) ELSE a

\* the limbs of a sequence w of naturals weighing Base^(i-1) each, from
\* position i on, with carry c
RECURSIVE CarryFrom(_, _, _)
CarryFrom(w, i, c) ==
  IF i > Len(w)
  THEN IF c = 0 THEN <<>> ELSE <<c % Base>> \o CarryFrom(w, i, c \div Base)
  ELSE <<(w[i] + c) % Base>> \o CarryFrom(w, i + 1, (w[i] + c) \div Base)

Normalise(w) == Trim(CarryFrom(w, 1, 0))

BigFromNat(n) == Normalise(<<n>>)

Limb(a, i) == IF i >= 1 /\ i <= Len(a) THEN a[i] ELSE 0

BigAdd(a, b) ==
  Normalise([i \in 1..(IF Len(a) > Len(b) THEN Len(a) ELSE Len(b)) |->
               Limb(a, i) + Limb(b, i)])

BigMulSmall(a, k) == Normalise([i \in 1..Len(a) |-> a[i] * k])

\* the number of bits of a
BigLen(a) == IF a = <<>> THEN 0 ELSE LimbBits * (Len(a) - 1) + BitLen(a[Len(a)])

\* bit j of a, bit 0 being the least significant
BigBit(a, j) == (Limb(a, (j \div LimbBits) + 1) \div 2^(j % LimbBits)) % 2

\* a * 2^t
BigShl(a, t) ==
  LET q == t \div LimbBits
      r == t % LimbBits
  IN Trim([i \in 1..(Len(a) + q + 1) |->
             ((Limb(a, i - q) * 2^r) % Base) + (Limb(a, i - q - 1) \div 2^(LimbBits - r))])

\* a \div 2^t
BigShr(a, t) ==
  LET q == t \div LimbBits
      r == t % LimbBits
  IN Trim([i \in 1..Len(a) |->
             (Limb(a, i + q) \div 2^r) + ((Limb(a, i + q + 1) % 2^r) * 2^(LimbBits - r))])

\* a <= b
BigLeq(a, b) ==
  \/ Len(a) < Len(b)
  \/ /\ Len(a) = Len(b)
     /\ \/ a = b
        \/ \E i \in 1..Len(a) : /\ a[i] < b[i]
                                /\ \A j \in (i + 1)..Len(a) : a[j] = b[j]

FZero == [m |-> <<>>, e |-> 0]

\* Round to nearest, ties to even: the number is n * 2^x, plus less than
\* 2^x when sticky (n then has more than MantBits bits).
RoundBig(n, x, sticky) ==
  LET len == BigLen(n)
      t   == len - MantBits
  IN IF n = <<>> THEN FZero
     ELSE IF t <= 0 THEN [m |-> BigShl(n, -t), e |-> x + len - 1]
     ELSE LET top   == BigShr(n, t)
              guard == BigBit(n, t - 1)
              rest  == sticky \/ \E j \in 0..(t - 2) : BigBit(n, j) = 1
              up    == guard = 1 /\ (rest \/ BigBit(top, 0) = 1)
              inc   == IF up THEN BigAdd(top, <<1>>) ELSE top
          IN IF BigLen(inc) > MantBits
             THEN [m |-> BigShr(inc, 1), e |-> x + len]
             ELSE [m |-> inc, e |-> x + len - 1]

\* float(n) for a natural number n
FromNat(n) == RoundBig(BigFromNat(n), 0, FALSE)

\* the float h * 0.5 for a natural number h
FromHalves(h) == RoundBig(BigFromNat(h), -1, FALSE)

\* long division of r / d, r < d: the next k limbs of the quotient, most
\* significant first, and then the remainder
RECURSIVE DivLimbsOf(_, _, _)
DivLimbsOf(r, d, k) ==
  IF k = 0 THEN <<r>>
  ELSE <<(r * Base) \div d>> \o DivLimbsOf((r * Base) % d, d, k - 1)

\* the float n / d of two floats with natural values n and d, d > 0 (or of
\* the floats n * 0.5 and d * 0.5: the quotient is the same)
FDiv(n, d) ==
  LET f    == DivLimbsOf(n % d, d, DivLimbs)
      frac == [i \in 1..DivLimbs |-> f[DivLimbs + 1 - i]]
      int  == BigFromNat(n \div d)
  IN IF n = 0 THEN FZero
     ELSE RoundBig(Trim(frac \o int), -(LimbBits * DivLimbs), f[DivLimbs + 1] # 0)

\* the float f * 100
FMul100(f) ==
  IF f = FZero THEN FZero
  ELSE RoundBig(BigMulSmall(f.m, 100), f.e - (MantBits - 1), FALSE)

\* the float f + g
FAdd(f, g) ==
  IF f = FZero THEN g
  ELSE IF g = FZero THEN f
  ELSE LET xf == f.e - (MantBits - 1)
           xg == g.e - (MantBits - 1)
           x  == IF xf < xg THEN xf ELSE xg
       IN RoundBig(BigAdd(BigShl(f.m, xf - x), BigShl(g.m, xg - x)), x, FALSE)

(***************************** sheets **************************************)
(* A worksheet snapshot is [ok, cols, rows]: ok says that reading it       *)
(* succeeds (it fails when the worksheet is missing or the service is      *)
(* down), cols is the header row and rows the records of                   *)
(* get_all_records(), each a function from the columns to cells.  A cell   *)
(* is a number (a natural, or an integer in "Budget") or a string, as      *)
(* gspread's numericising leaves it.                                       *)
(***************************************************************************)
NoSheet == [ok |-> FALSE, cols |-> <<>>, rows |-> <<>>]

Sheet(cols, rows) == [ok |-> TRUE, cols |-> cols, rows |-> rows]

Num(n) == [k |-> "num", v |-> n]
Str(s) == [k |-> "str", v |-> s]

HasCol(df, c) == \E i \in 1..Len(df.cols) : df.cols[i] = c

\* pd.DataFrame(): no columns, no rows
EmptyFrame == [columns |-> <<>>, rows |-> <<>>]

\* DataFrame.empty
IsEmpty(df) == df.rows = <<>> \/ df.columns = <<>>

\* what a computation inside a try block ends with
Return(v) == [exc |-> "", val |-> v]
Raise(e)  == [exc |-> e, val |-> <<>>]

\* str(n) for a natural number n
RECURSIVE NatToStr(_)
NatToStr(n) ==
  IF n < 10 THEN <<CodeOrder[Ord("0") + n]>>
  ELSE Append(NatToStr(n \div 10), CodeOrder[Ord("0") + (n % 10)])

IsStr(c, s) == c.k = "str" /\ c.v = s

\* str(v) for a cell
CellToStr(c) == IF c.k = "str" THEN c.v ELSE NatToStr(c.v)

\* pd.to_numeric(x, errors='coerce') followed by the replacement of NaN by 0,
\* for a number or a string holding no sign, point, exponent or blank
ToNumericOrZero(c) ==
  IF c.k = "num" THEN c.v
  ELSE IF IsDigitStr(c.v) THEN DigitsValue(c.v) ELSE 0

colMonth      == <<"M","o","n","t","h">>
colIncome     == <<"I","n","c","o","m","e">>
colDifference == <<"D","i","f","f","e","r","e","n","c","e">>
colCategory   == <<"C","a","t","e","g","o","r","y">>

(***************************** state ***************************************)
VARIABLES
  all_sheet_names,  \* DataService.all_sheet_names: the worksheet titles
  budget,           \* snapshot of the "Budget" worksheet
  ctotal,           \* snapshot of the "category total" worksheet
  call,             \* the DataService call made last, with its arguments
  ret,              \* what that call returned
  messages,         \* what st.error / st.info / st.warning have shown
  pc,               \* position of the dashboard script (main.py)
  selected,         \* the sidebar's year and month, and current_sheet_name
  rendered          \* the dashboard sections drawn so far

vars == <<all_sheet_names, budget, ctotal, call, ret, messages, pc, selected,
          rendered>>

(************************ Metadata Resolver ********************************)
\* month_order.get(x, 99)
MonthOrderGet(x) ==
  CASE x = <<"J","a","n","u","a","r","y">>   -> 1
    [] x = <<"F","e","b","r","u","a","r","y">>  -> 2
    [] x = <<"M","a","r","c","h">>     -> 3
    [] x = <<"A","p","r","i","l">>     -> 4
    [] x = <<"M","a","y">>       -> 5
    [] x = <<"J","u","n","e">>      -> 6
    [] x = <<"J","u","l","y">>      -> 7
    [] x = <<"A","u","g","u","s","t">>    -> 8
    [] x = <<"S","e","p","t","e","m","b","e","r">> -> 9
    [] x = <<"O","c","t","o","b","e","r">>   -> 10
    [] x = <<"N","o","v","e","m","b","e","r">>  -> 11
    [] x = <<"D","e","c","e","m","b","e","r">>  -> 12
    [] OTHER             -> 99

\* get_available_years without the test of the numeral's length
IsYearSheetAnyLength(name) ==
  LET parts == Split(name)
  IN Len(parts) = 2 /\ IsDigitStr(parts[2])

\* the test of get_available_years on one title
IsYearSheet(name) ==
  LET parts == Split(name)
  IN Len(parts) = 2 /\ IsDigitStr(parts[2]) /\ Len(parts[2]) = 4

get_available_years(names) ==
  SortedStrings({ Split(names[i])[2] :
                    i \in { j \in 1..Len(names) : IsYearSheet(names[j]) } })

\* the test of get_months_for_year on one title
MonthSheetTest(name, year) ==
  LET parts == Split(name)
  IN Len(parts) = 2 /\ parts[2] = year

\* the loop filling found_months
RECURSIVE FoundMonths(_, _)
FoundMonths(names, year) ==
  IF names = <<>> THEN <<>>
  ELSE LET rest == FoundMonths(Tail(names), year)
       IN IF MonthSheetTest(Head(names), year)
          THEN <<Split(Head(names))[1]>> \o rest
          ELSE rest

\* an unstable insertion: x goes before the elements whose key equals its own
RECURSIVE InsertBeforeEqual(_, _)
InsertBeforeEqual(sorted, x) ==
  IF sorted = <<>> THEN <<x>>
  ELSE IF MonthOrderGet(Head(sorted)) < MonthOrderGet(x)
       THEN <<Head(sorted)>> \o InsertBeforeEqual(Tail(sorted), x)
       ELSE <<x>> \o sorted

\* list.sort(key=...): stable, x goes after every element whose key is <= its own
RECURSIVE InsertByKey(_, _)
InsertByKey(sorted, x) ==
  IF sorted = <<>> THEN <<x>>
  ELSE IF MonthOrderGet(Head(sorted)) <= MonthOrderGet(x)
       THEN <<Head(sorted)>> \o InsertByKey(Tail(sorted), x)
       ELSE <<x>> \o sorted

RECURSIVE SortMonths(_)
SortMonths(found) ==
  IF found = <<>> THEN <<>>
  ELSE InsertByKey(SortMonths(SubSeq(found, 1, Len(found) - 1)), found[Len(found)])

get_months_for_year(names, year) == SortMonths(FoundMonths(names, year))

sheet_exists(names, sheet_name) == \E i \in 1..Len(names) : names[i] = sheet_name

(*************************** Metrics Engine ********************************)
\* get_sheet_as_df
get_sheet_as_df(sheet) ==
  IF ~sheet.ok THEN Raise("WorksheetNotFound") ELSE Return(sheet)

\* the rows of df whose Month cell equals the string s, in order
MonthRows(df, s) == SelectSeq(df.rows, LAMBDA r : IsStr(r[colMonth], s))

\* the try block of get_monthly_kpis
kpis_body(sheet, month, year) ==
  LET read           == get_sheet_as_df(sheet)
      budget_df      == read.val
      target_row_str == month \o <<" ">> \o year
      row            == MonthRows(budget_df, target_row_str)
  IN IF read.exc # "" THEN read
     ELSE IF ~HasCol(budget_df, colMonth) THEN Raise("KeyError")
     ELSE IF row = <<>> THEN Return(<<0, 0, 0>>)
     ELSE IF ~HasCol(budget_df, colIncome) \/ ~HasCol(budget_df, colDifference)
          THEN Raise("KeyError")
     ELSE LET income == row[1][colIncome]
              diff   == row[1][colDifference]
          IN IF income.k # "num" \/ diff.k # "num" THEN Raise("TypeError")
             ELSE Return(<<income.v, income.v - diff.v, diff.v>>)

\* get_monthly_kpis: [ret, msgs, exc], exc the exception reaching the caller
get_monthly_kpis(sheet, month, year) ==
  LET r == kpis_body(sheet, month, year)
  IN IF r.exc # ""
     THEN [ret |-> <<0, 0, 0>>, msgs |-> <<"KPI Fetch Error">>, exc |-> ""]
     ELSE [ret |-> r.val, msgs |-> <<>>, exc |-> ""]

\* the Amount column of get_category_expenses: astype(str), the commas
\* removed, pd.to_numeric(errors='coerce'), fillna(0)
AmountOf(c) == ToNumericOrZero(Str(RemoveCommas(CellToStr(c))))

\* the try block of get_category_expenses
category_body(sheet, sheet_name) ==
  LET read  == get_sheet_as_df(sheet)
      ct_df == read.val
      kept  == SelectSeq(ct_df.rows, LAMBDA r : ~IsStr(r[colCategory], <<"I","n","c","o","m","e">>))
  IN IF read.exc # "" THEN read
     ELSE IF ~HasCol(ct_df, sheet_name) THEN Return(EmptyFrame)
     ELSE IF ~HasCol(ct_df, colCategory) THEN Raise("KeyError")
     ELSE Return([columns |-> <<"Category", "Amount">>,
                  rows    |-> [i \in 1..Len(kept) |->
                                 [Category |-> kept[i][colCategory].v,
                                  Amount   |-> AmountOf(kept[i][sheet_name])]]])

get_category_expenses(sheet, sheet_name) ==
  LET r == category_body(sheet, sheet_name)
  IN IF r.exc # ""
     THEN [ret |-> EmptyFrame, msgs |-> <<"Category Fetch Error">>, exc |-> ""]
     ELSE [ret |-> r.val, msgs |-> <<>>, exc |-> ""]

NEED_CATS == << <<"r","e","n","t">>, <<"g","r","o","c","e","r","y">>, <<"p","e","t","r","o","l">>, <<"g","a","s"," ","&"," ","w","a","t","e","r">>, <<"m","e","d","i","c","i","n","e">>,
                <<"e","b"," ","&"," ","e","c">>, <<"e","m","e","r","g","e","n","c","y"," ","f","u","n","d">>, <<"c","a","r"," ","m","a","i","n","t","e","n","a","n","c","e">>,
                <<"b","i","k","e"," ","m","a","i","n","t","e","n","a","n","c","e">>, <<"r","e","l","a","t","i","v","e","s">>, <<"l","a","s","t"," ","m","o","n","t","h"," ","d","e","b","t">>,
                <<"h","o","m","e"," ","a","p","p","/","m","a","i","n","t","e","n","a","n","c","e">>, <<"e","m","i">> >>

WANT_CATS == << <<"e","n","t","e","r","t","a","i","n","m","e","n","t">>, <<"g","r","o","o","m","i","n","g">>, <<"t","r","i","p","/","v","a","c","a","t","i","o","n">>, <<"g","i","f","t","s">>,
                <<"s","e","l","f"," ","i","m","p","r","o","v","e","m","e","n","t">>, <<"w","i","t","h","d","r","a","w","a","l">> >>

INVEST_CAT == <<"i","n","v","e","s","t","m","e","n","t">>
OTHERS_CAT == <<"o","t","h","e","r","s">>

\* ct_df['Category'].astype(str).str.strip().str.lower() for one cell
NormCategory(c) == Lower(Strip(CellToStr(c)))

\* get_val of get_allocation_breakdown: a natural number
get_val(ct_df, month_col, cat) ==
  LET key == Strip(Lower(cat))
      row == SelectSeq(ct_df.rows, LAMBDA r : NormCategory(r[colCategory]) = key)
      val == row[1][month_col]
      s   == Strip(RemoveCommas(val.v))
  IN IF row = <<>> THEN 0
     ELSE IF val.k = "str" /\ val.v \in {<<>>, <<" ">>, <<"-">>, <<"N","/","A">>} THEN 0
     ELSE IF val.k = "num" THEN val.v
     ELSE IF IsDigitStr(s) THEN DigitsValue(s) ELSE 0

RECURSIVE SumVals(_, _, _)
SumVals(ct_df, month_col, cats) ==
  IF cats = <<>> THEN 0
  ELSE get_val(ct_df, month_col, Head(cats)) + SumVals(ct_df, month_col, Tail(cats))

\* need_sum with others_val added whole
NeedHalvesOthersWhole(ct_df, month_col) ==
  2 * SumVals(ct_df, month_col, NEED_CATS) + 2 * get_val(ct_df, month_col, OTHERS_CAT)

\* need_sum and want_sum counted in halves (they are multiples of 0.5, which
\* binary64 holds exactly): twice the categories' sum plus others_val
NeedHalves(ct_df, month_col) ==
  2 * SumVals(ct_df, month_col, NEED_CATS) + get_val(ct_df, month_col, OTHERS_CAT)

WantHalves(ct_df, month_col) ==
  2 * SumVals(ct_df, month_col, WANT_CATS) + get_val(ct_df, month_col, OTHERS_CAT)

\* invest_pct
InvestPct(invest_sum, income) ==
  IF income > 0 THEN FMul100(FDiv(invest_sum, income)) ELSE FZero

\* need_pct and want_pct: part and spend_total in halves
SpendPct(part, spend_total) ==
  IF spend_total > 0 THEN FMul100(FDiv(part, spend_total)) ELSE FZero

\* the frame get_allocation_breakdown returns
AllocationFrame(need, want, invest_sum, need_pct, want_pct, invest_pct) ==
  [columns |-> <<"Type", "Raw", "Percent">>,
   rows    |-> << [Type |-> "Need", Raw |-> FromHalves(need), Percent |-> need_pct],
                  [Type |-> "Want", Raw |-> FromHalves(want), Percent |-> want_pct],
                  [Type |-> "Investment", Raw |-> FromNat(invest_sum),
                   Percent |-> invest_pct] >>]

\* the first test alone
AllocationIsEmptyFirstTest(income, spend_total, invest_sum, total) ==
  income <= 0 /\ spend_total <= 0 /\ invest_sum <= 0

\* the two tests of get_allocation_breakdown that end it with pd.DataFrame()
AllocationIsEmpty(income, spend_total, invest_sum, total) ==
  \/ income <= 0 /\ spend_total <= 0 /\ invest_sum <= 0
  \/ total = FZero

\* the try block of get_allocation_breakdown
allocation_body(sheet, sheet_name) ==
  LET read        == get_sheet_as_df(sheet)
      ct_df       == read.val
      need        == NeedHalves(ct_df, sheet_name)
      want        == WantHalves(ct_df, sheet_name)
      invest_sum  == get_val(ct_df, sheet_name, INVEST_CAT)
      spend_total == need + want
      income      == get_val(ct_df, sheet_name, <<"i","n","c","o","m","e">>)
      invest_pct  == InvestPct(invest_sum, income)
      need_pct    == SpendPct(need, spend_total)
      want_pct    == SpendPct(want, spend_total)
      total       == FAdd(FAdd(need_pct, want_pct), invest_pct)
  IN IF read.exc # "" THEN read
     ELSE IF ~HasCol(ct_df, sheet_name) THEN Return(EmptyFrame)
     ELSE IF ~HasCol(ct_df, colCategory) THEN Raise("KeyError")
     ELSE IF AllocationIsEmpty(income, spend_total, invest_sum, total)
          THEN Return(EmptyFrame)
     ELSE Return(AllocationFrame(need, want, invest_sum,
                                 need_pct, want_pct, invest_pct))

get_allocation_breakdown(sheet, sheet_name) ==
  LET r == allocation_body(sheet, sheet_name)
  IN IF r.exc # ""
     THEN [ret |-> EmptyFrame, msgs |-> <<"Allocation Breakdown Error">>, exc |-> ""]
     ELSE [ret |-> r.val, msgs |-> <<>>, exc |-> ""]

\* the category columns of get_budget_vs_actual
BvaCols(budget_df) ==
  SelectSeq(budget_df.cols,
            LAMBDA c : /\ c \notin {colMonth, colIncome, colDifference}
                       /\ ~Contains(c, <<"U","n","n","a","m","e","d">>))

\* the records appended for one column when the zero amounts are skipped
BvaPairNonZero(target_row, actual_row, col) ==
  SelectSeq(<< [Category |-> col, Type |-> "Budget",
                Amount |-> ToNumericOrZero(target_row[col])],
               [Category |-> col, Type |-> "Actual",
                Amount |-> ToNumericOrZero(actual_row[col])] >>,
            LAMBDA d : d.Amount # 0)

\* the two records appended for one column
BvaPair(target_row, actual_row, col) ==
  << [Category |-> col, Type |-> "Budget", Amount |-> ToNumericOrZero(target_row[col])],
     [Category |-> col, Type |-> "Actual", Amount |-> ToNumericOrZero(actual_row[col])] >>

RECURSIVE BvaData(_, _, _)
BvaData(target_row, actual_row, cols) ==
  IF cols = <<>> THEN <<>>
  ELSE BvaPair(target_row, actual_row, Head(cols))
       \o BvaData(target_row, actual_row, Tail(cols))

\* the try block of get_budget_vs_actual
bva_body(sheet, sheet_name) ==
  LET read       == get_sheet_as_df(sheet)
      budget_df  == read.val
      target_row == MonthRows(budget_df, <<"T","a","r","g","e","t">>)
      actual_row == MonthRows(budget_df, sheet_name)
      data       == BvaData(target_row[1], actual_row[1], BvaCols(budget_df))
  IN IF read.exc # "" THEN read
     ELSE IF ~HasCol(budget_df, colMonth) THEN Raise("KeyError")
     ELSE IF target_row = <<>> \/ actual_row = <<>> THEN Return(EmptyFrame)
     ELSE IF data = <<>> THEN Return(EmptyFrame)
     ELSE Return([columns |-> <<"Category", "Type", "Amount">>, rows |-> data])

\* get_budget_vs_actual without its except clause
get_budget_vs_actual_no_except(sheet, sheet_name) ==
  LET r == bva_body(sheet, sheet_name)
  IN [ret |-> IF r.exc # "" THEN EmptyFrame ELSE r.val, msgs |-> <<>>, exc |-> r.exc]

get_budget_vs_actual(sheet, sheet_name) ==
  LET r == bva_body(sheet, sheet_name)
  IN IF r.exc # ""
     THEN [ret |-> EmptyFrame, msgs |-> <<"Budget vs Actual Error">>, exc |-> ""]
     ELSE [ret |-> r.val, msgs |-> <<>>, exc |-> ""]

(***************************** inputs **************************************)
SetToSeqs(S, n) ==
  UNION { { f \in [1..k -> S] : \A i, j \in 1..k : i # j => f[i] # f[j] } : k \in 0..n }

Range(f) == { f[i] : i \in DOMAIN f }

\* worksheet titles: month sheets, the two summary sheets, and titles that
\* are not of the "Month YYYY" shape
NamePool ==
  { <<"A","u","g","u","s","t"," ","2","0","2","5">>, <<"J","u","l","y"," ","2","0","2","5">>, <<"J","u","l","y"," ","2","0","2","4">>, <<"F","o","o"," ","2","0","2","5">>, <<"B","a","r"," ","2","0","2","5">>,
    <<"B","u","d","g","e","t">>, <<"c","a","t","e","g","o","r","y"," ","t","o","t","a","l">>, <<"J","u","l","y"," ","2","0","2","5"," ","o","l","d">>, <<"A","u","g","u","s","t"," "," ","2","0","2","5">>,
    <<"N","o","t","e","s"," ","2","0","2","5","5">> }

\* the lists of distinct titles a workbook can have
NameLists == SetToSeqs(NamePool, MaxSheets)

YearArgs == { <<"2","0","2","5">>, <<"2","0","2","4">>, <<"t","o","t","a","l">>, <<"2","0","2","5","5">> }

ExistsArgs == { <<"A","u","g","u","s","t"," ","2","0","2","5">>, <<"J","u","l","y"," ","2","0","2","4">>, <<"B","u","d","g","e","t">> }

colRent    == <<"R","e","n","t">>
colUnnamed == <<"U","n","n","a","m","e","d",":"," ","5">>
colGrocery == <<"G","r","o","c","e","r","y">>

BudgetLayouts ==
  { <<colMonth, colIncome, colDifference, colRent, colUnnamed, colGrocery>>,
    <<colMonth, colIncome, colRent>>,
    <<colIncome, colDifference, colRent>>,
    <<colMonth, colIncome, colDifference>> }

BRow(month, income, diff, rent, unnamed, grocery) ==
  (colMonth :> Str(month)) @@ (colIncome :> income) @@ (colDifference :> diff)
  @@ (colRent :> rent) @@ (colUnnamed :> unnamed) @@ (colGrocery :> grocery)

BudgetRowPool ==
  { BRow(<<"T","a","r","g","e","t">>, Num(50000), Num(0), Num(10000), Str(<<>>), Num(5000)),
    BRow(<<"T","a","r","g","e","t">>, Str(<<>>), Str(<<>>), Str(<<"a","b","c">>), Str(<<>>), Num(0)),
    BRow(<<"A","u","g","u","s","t"," ","2","0","2","5">>, Num(50000), Num(12000), Num(9500), Str(<<>>), Str(<<"1",",","2","0","0">>)),
    BRow(<<"A","u","g","u","s","t"," ","2","0","2","5">>, Str(<<"5","0",",","0","0","0">>), Num(12000), Str(<<>>), Str(<<>>), Str(<<"3","0","0">>)),
    BRow(<<"A","u","g","u","s","t"," ","2","0","2","5">>, Num(100), Num(-20), Num(0), Num(7), Num(1)),
    BRow(<<"J","u","l","y"," ","2","0","2","5">>, Num(40000), Num(-2000), Str(<<"-">>), Str(<<>>), Num(300)) }

BudgetSheet(cols, rows) ==
  Sheet(cols, [i \in 1..Len(rows) |-> [c \in Range(cols) |-> rows[i][c]]])

BudgetPool ==
  { BudgetSheet(cols, rows) :
      cols \in BudgetLayouts, rows \in SetToSeqs(BudgetRowPool, MaxBudgetRows) }
  \cup {NoSheet}

DefaultBudget ==
  BudgetSheet(<<colMonth, colIncome, colDifference, colRent, colUnnamed, colGrocery>>,
              << BRow(<<"T","a","r","g","e","t">>, Num(50000), Num(0), Num(10000), Str(<<>>), Num(5000)),
                 BRow(<<"A","u","g","u","s","t"," ","2","0","2","5">>, Num(50000), Num(12000), Num(9500), Str(<<>>),
                      Str(<<"1",",","2","0","0">>)) >>)

\* "category total": the spellings of the Category cells, and for each the
\* cells its row may hold in the month column (Absent: the sheet has no such row)
CtCats == << <<"I","n","c","o","m","e">>, <<" ","R","e","n","t"," ">>, <<"G","I","F","T","S">>, <<"O","t","h","e","r","s">>, <<"i","n","v","e","s","t","m","e","n","t">> >>

Absent == [k |-> "absent", v |-> 0]

CtChoices ==
  { Num(40000), Str(<<"4","0",",","0","0","0">>), Num(0), Absent }
  \X { Num(20000), Num(1), Str(<<"-">>), Absent }
  \X { Num(10000), Num(2), Str(<<"N","/","A">>) }
  \X { Num(2000), Num(1), Num(0) }
  \X { Num(4000), Str(<<"a","b","c">>), Num(0) }

colAugust == <<"A","u","g","u","s","t"," ","2","0","2","5">>

\* the sheet with the header <<catcol, monthcol>> and one row per present category
CtSheet(catcol, monthcol, choice) ==
  LET present == SelectSeq(<<1, 2, 3, 4, 5>>, LAMBDA i : choice[i] # Absent)
  IN Sheet(<<catcol, monthcol>>,
           [j \in 1..Len(present) |->
              (catcol :> Str(CtCats[present[j]])) @@ (monthcol :> choice[present[j]])])

DefaultCt ==
  CtSheet(colCategory, colAugust,
          <<Num(40000), Num(20000), Num(10000), Num(2000), Num(4000)>>)

CtPool ==
  { CtSheet(colCategory, colAugust, ch) : ch \in CtChoices }
  \cup { CtSheet(<<"N","a","m","e">>, colAugust, <<Num(40000), Num(20000), Num(10000), Num(2000), Num(4000)>>),
         CtSheet(colCategory, <<"J","u","n","e"," ","2","0","2","5">>, <<Num(40000), Num(20000), Num(10000), Num(2000), Num(4000)>>),
         NoSheet }

KpiMonths == { <<"A","u","g","u","s","t">>, <<"J","u","l","y">> }
KpiYears  == { <<"2","0","2","5">> }
SheetArgs == { <<"A","u","g","u","s","t"," ","2","0","2","5">>, <<"J","u","l","y"," ","2","0","2","5">> }
BvaArgs   == SheetArgs \cup { <<"T","a","r","g","e","t">> }

DefaultNames == << <<"B","u","d","g","e","t">>, <<"c","a","t","e","g","o","r","y"," ","t","o","t","a","l">>, <<"A","u","g","u","s","t"," ","2","0","2","5">>, <<"J","u","l","y"," ","2","0","2","5">> >>

(*************************** calls *****************************************)
NoCall == [op |-> "none", args |-> <<>>, exc |-> ""]

\* an empty page, the script at position p
Fresh(p) == /\ call = NoCall /\ ret = <<>> /\ messages = <<>>
            /\ pc = p /\ selected = <<>> /\ rendered = {}

\* Streamlit runs the script again from the top on a cleared page; the
\* cached DataService keeps its workbook
Rerun ==
  /\ pc \in {"idle", "done", "stopped"}
  /\ call # NoCall \/ pc # "idle"
  /\ call' = NoCall /\ ret' = <<>> /\ messages' = <<>>
  /\ pc' = (IF pc = "idle" THEN "idle" ELSE "sidebar")
  /\ selected' = <<>> /\ rendered' = {}
  /\ UNCHANGED <<all_sheet_names, budget, ctotal>>

\* a call of a metadata operation on a fresh page: it shows nothing and
\* raises nothing
MetaCall(op, args, value) ==
  /\ pc = "idle" /\ call = NoCall
  /\ call' = [op |-> op, args |-> args, exc |-> ""]
  /\ ret' = value
  /\ UNCHANGED <<all_sheet_names, budget, ctotal, messages, pc, selected, rendered>>

GetAvailableYears ==
  MetaCall("get_available_years", <<>>, get_available_years(all_sheet_names))

GetMonthsForYear ==
  \E year \in YearArgs :
    MetaCall("get_months_for_year", <<year>>, get_months_for_year(all_sheet_names, year))

SheetExists ==
  \E name \in ExistsArgs :
    MetaCall("sheet_exists", <<name>>, sheet_exists(all_sheet_names, name))

\* a call of a Metrics Engine operation from a fresh page
EngineCall(op, args, r) ==
  /\ pc = "idle" /\ call = NoCall
  /\ call' = [op |-> op, args |-> args, exc |-> r.exc]
  /\ ret' = r.ret
  /\ messages' = r.msgs
  /\ UNCHANGED <<all_sheet_names, budget, ctotal, pc, selected, rendered>>

GetMonthlyKpis ==
  \E month \in KpiMonths, year \in KpiYears :
    EngineCall("get_monthly_kpis", <<month, year>>,
               get_monthly_kpis(budget, month, year))

GetCategoryExpenses ==
  \E sheet_name \in SheetArgs :
    EngineCall("get_category_expenses", <<sheet_name>>,
               get_category_expenses(ctotal, sheet_name))

GetAllocationBreakdown ==
  \E sheet_name \in SheetArgs :
    EngineCall("get_allocation_breakdown", <<sheet_name>>,
               get_allocation_breakdown(ctotal, sheet_name))

GetBudgetVsActual ==
  \E sheet_name \in BvaArgs :
    EngineCall("get_budget_vs_actual", <<sheet_name>>,
               get_budget_vs_actual(budget, sheet_name))

(*************************** the dashboard *********************************)
\* the "category total" snapshots of the rendered dashboards: one with
\* amounts for August 2025, one with none, one that cannot be read
RenderCts ==
  { DefaultCt,
    CtSheet(colCategory, colAugust, <<Num(0), Str(<<"-">>), Str(<<"N","/","A">>), Num(0), Num(0)>>),
    NoSheet }

Show(msgs) == messages' = messages \o msgs

\* plotly express raises ValueError for an argument that names no column
PxColumnsOk(df, names) == names \subseteq Range(df.columns)

\* main.py 21-47: the sidebar
Sidebar ==
  /\ pc = "sidebar"
  /\ LET years == get_available_years(all_sheet_names)
     IN IF years = <<>>
        THEN /\ Show(<<"No data found!">>)
             /\ pc' = "stopped"
             /\ UNCHANGED selected
        ELSE \E selected_year \in Range(years) :
               \E selected_month_name \in
                    Range(get_months_for_year(all_sheet_names, selected_year)) :
                 /\ selected' =
                      [year  |-> selected_year,
                       month |-> selected_month_name,
                       current_sheet_name |->
                         selected_month_name \o <<" ">> \o selected_year]
                 /\ pc' = "validate"
                 /\ UNCHANGED messages
  /\ UNCHANGED <<all_sheet_names, budget, ctotal, call, ret, rendered>>

\* main.py 50-56: the check that the sheet exists
Validate ==
  /\ pc = "validate"
  /\ IF sheet_exists(all_sheet_names, selected.current_sheet_name)
     THEN pc' = "kpis" /\ UNCHANGED messages
     ELSE pc' = "stopped" /\ Show(<<"Sheet not found!", "Available sheets">>)
  /\ UNCHANGED <<all_sheet_names, budget, ctotal, call, ret, selected, rendered>>

\* main.py 58-70: the KPI row
RenderKpis ==
  /\ pc = "kpis"
  /\ LET r == get_monthly_kpis(budget, selected.month, selected.year)
     IN /\ call' = [op |-> "get_monthly_kpis",
                    args |-> <<selected.month, selected.year>>, exc |-> r.exc]
        /\ ret' = r.ret
        /\ IF r.exc # ""
           THEN Show(r.msgs \o <<"Could not load KPIs">>) /\ UNCHANGED rendered
           ELSE Show(r.msgs) /\ rendered' = rendered \cup {"kpis"}
  /\ pc' = "category"
  /\ UNCHANGED <<all_sheet_names, budget, ctotal, selected>>

\* one chart of the try block of main.py 75-149: the section is drawn (the
\* chart, or the text shown for an empty frame) and the script goes on to
\* the next one, or the chart raises and the block's handler shows
\* "Chart Error" and leaves the block
Chart(section, op, r, columns, info, next) ==
  /\ call' = [op |-> op, args |-> <<selected.current_sheet_name>>, exc |-> r.exc]
  /\ ret' = r.ret
  /\ IF r.exc # "" \/ (~IsEmpty(r.ret) /\ ~PxColumnsOk(r.ret, columns))
     THEN /\ Show(r.msgs \o <<"Chart Error">>)
          /\ pc' = "transactions"
          /\ UNCHANGED rendered
     ELSE /\ Show(r.msgs \o (IF IsEmpty(r.ret) THEN <<info>> ELSE <<>>))
          /\ pc' = next
          /\ rendered' = rendered \cup {section}
  /\ UNCHANGED <<all_sheet_names, budget, ctotal, selected>>

\* main.py 80-98: px.bar(x="Amount", y="Category", color="Amount")
ChartCategory ==
  /\ pc = "category"
  /\ Chart("category", "get_category_expenses",
           get_category_expenses(ctotal, selected.current_sheet_name),
           {"Amount", "Category"}, "No category data available.", "allocation")

\* main.py 100-119: px.pie(values="Amount", names="Type", color="Type")
ChartAllocation ==
  /\ pc = "allocation"
  /\ Chart("allocation", "get_allocation_breakdown",
           get_allocation_breakdown(ctotal, selected.current_sheet_name),
           {"Amount", "Type"}, "No allocation data.", "bva")

\* main.py 121-146: px.bar(x="Category", y="Amount", color="Type")
ChartBudgetVsActual ==
  /\ pc = "bva"
  /\ Chart("bva", "get_budget_vs_actual",
           get_budget_vs_actual(budget, selected.current_sheet_name),
           {"Category", "Amount", "Type"},
           "No Budget vs Actual data available for this month.", "transactions")

\* main.py 153-173: the transactions table; the month's worksheet is read
\* with rows, read empty, or the read fails
RenderTransactions ==
  /\ pc = "transactions"
  /\ \E outcome \in {"rows", "empty", "fails"} :
       /\ call' = [op |-> "get_monthly_data",
                   args |-> <<selected.current_sheet_name>>, exc |-> ""]
       /\ ret' = <<outcome>>
       /\ CASE outcome = "rows"  -> /\ UNCHANGED messages
                                    /\ rendered' = rendered \cup {"transactions"}
            [] outcome = "empty" -> /\ Show(<<"No transactions found">>)
                                    /\ rendered' = rendered \cup {"transactions"}
            [] outcome = "fails" -> /\ Show(<<"Error loading table">>)
                                    /\ UNCHANGED rendered
  /\ pc' = "done"
  /\ UNCHANGED <<all_sheet_names, budget, ctotal, selected>>

(*************************** properties ************************************)
\* The positions of the characters of a title that are not whitespace.
NonSpace(name) == { k \in 1..Len(name) : ~IsSpace(name[k]) }

\* <<a, b>> when the title is made of exactly the two tokens a and b,
\* whitespace around and between them; <<>> otherwise
TwoTokens(name) ==
  LET ns == NonSpace(name)
      lo == CHOOSE k \in ns : \A l \in ns : k <= l
      hi == CHOOSE k \in ns : \A l \in ns : l <= k
      cuts == { c \in (ns \X ns) :
                  /\ c[1] + 1 < c[2]
                  /\ \A k \in lo..hi : (k \in ns) <=> (k <= c[1] \/ k >= c[2]) }
      c == CHOOSE c \in cuts : TRUE
  IN IF ns = {} \/ cuts = {} THEN <<>>
     ELSE <<SubSeq(name, lo, c[1]), SubSeq(name, c[2], hi)>>

\* the "Month YYYY" shape: two tokens, the second a numeral of four digits
MonthKeyShape(name) ==
  /\ TwoTokens(name) # <<>>
  /\ Len(TwoTokens(name)[2]) = 4
  /\ \A i \in 1..4 : TwoTokens(name)[2][i] \in Digits

CalendarTable ==
  << <<"J","a","n","u","a","r","y">>, <<"F","e","b","r","u","a","r","y">>, <<"M","a","r","c","h">>, <<"A","p","r","i","l">>, <<"M","a","y">>, <<"J","u","n","e">>, <<"J","u","l","y">>,
     <<"A","u","g","u","s","t">>, <<"S","e","p","t","e","m","b","e","r">>, <<"O","c","t","o","b","e","r">>, <<"N","o","v","e","m","b","e","r">>, <<"D","e","c","e","m","b","e","r">> >>

InCalendar(m) == \E i \in 1..12 : CalendarTable[i] = m

CalendarKey(m) ==
  IF InCalendar(m) THEN CHOOSE i \in 1..12 : CalendarTable[i] = m ELSE 99

CountIn(seq, x) == Cardinality({ i \in 1..Len(seq) : seq[i] = x })

\* the first tokens, in the order of the list, of the titles that pass test
FirstTokens(names, test(_)) ==
  LET hits == SelectSeq(names, test)
  IN [i \in 1..Len(hits) |-> Split(hits[i])[1]]

\* ret holds the elements of expected, one for one, in calendar order, those
\* that are no calendar month last and in the order they have in expected
CalendarSorted(expected) ==
  /\ Len(ret) = Len(expected)
  /\ \A i \in 1..Len(expected) : CountIn(ret, expected[i]) = CountIn(expected, expected[i])
  /\ \A i, j \in 1..Len(ret) : i < j => CalendarKey(ret[i]) <= CalendarKey(ret[j])
  /\ SelectSeq(ret, LAMBDA m : ~InCalendar(m))
       = SelectSeq(expected, LAMBDA m : ~InCalendar(m))

\* C7 as stated: monthsForYear(year) returns the first tokens of exactly
\* the sheet names whose second whitespace-separated token equals year, one
\* entry per such sheet, in calendar order, names outside the calendar table
\* last and in their input order.
C7_MonthsOfSecondToken ==
  call.op = "get_months_for_year" =>
    CalendarSorted(FirstTokens(all_sheet_names,
                     LAMBDA n : Len(Split(n)) >= 2 /\ Split(n)[2] = call.args[1]))

\* C7 amended: monthsForYear(year) returns the first tokens of exactly the
\* sheet names made of exactly two whitespace-separated tokens the second of
\* which equals year, one entry per such sheet, in calendar order
\* (January=1 .. December=12), names outside the calendar table last and in
\* their input order; ["August 2025", "July 2025"] gives ["July", "August"].
C7_MonthsForYear ==
  call.op = "get_months_for_year" =>
    /\ CalendarSorted(FirstTokens(all_sheet_names,
                        LAMBDA n : /\ TwoTokens(n) # <<>>
                                   /\ TwoTokens(n)[2] = call.args[1]))
    /\ (all_sheet_names = << <<"A","u","g","u","s","t"," ","2","0","2","5">>, <<"J","u","l","y"," ","2","0","2","5">> >> /\ call.args[1] = <<"2","0","2","5">>)
         => ret = << <<"J","u","l","y">>, <<"A","u","g","u","s","t">> >>

\* two names outside the calendar table returned in their input order, the
\* list holding a title of three tokens whose second is the year
C7_Witness ==
  /\ call.op = "get_months_for_year"
  /\ \E i \in 1..Len(all_sheet_names) : all_sheet_names[i] = <<"J","u","l","y"," ","2","0","2","5"," ","o","l","d">>
  /\ ret \in { << <<"F","o","o">>, <<"B","a","r">> >>, << <<"B","a","r">>, <<"F","o","o">> >> }

\* C8: availableYears returns exactly the second tokens of the sheet names
\* that split into exactly two tokens with a 4-digit numeral as the second,
\* without duplicates and ascending; "Budget" and "category total"
\* contribute nothing.
C8_AvailableYears ==
  call.op = "get_available_years" =>
    /\ Range(ret) = { TwoTokens(all_sheet_names[i])[2] :
                        i \in { j \in 1..Len(all_sheet_names) :
                                  MonthKeyShape(all_sheet_names[j]) } }
    /\ \A i, j \in 1..Len(ret) : i < j => DigitsValue(ret[i]) < DigitsValue(ret[j])

\* two years found among titles of which one has a 5-digit second token
C8_Witness ==
  /\ call.op = "get_available_years"
  /\ ret = << <<"2","0","2","4">>, <<"2","0","2","5">> >>
  /\ \E i \in 1..Len(all_sheet_names) : all_sheet_names[i] = <<"N","o","t","e","s"," ","2","0","2","5","5">>

\* C9: every element returned by availableYears and every element returned
\* by monthsForYear(year), for any string year, comes from a sheet name of
\* the "Month YYYY" shape.
C9_MonthKeyInvariant ==
  /\ call.op = "get_available_years" =>
       \A i \in 1..Len(ret) :
         \E j \in 1..Len(all_sheet_names) :
           /\ MonthKeyShape(all_sheet_names[j])
           /\ TwoTokens(all_sheet_names[j])[2] = ret[i]
  /\ call.op = "get_months_for_year" =>
       \A i \in 1..Len(ret) :
         \E j \in 1..Len(all_sheet_names) :
           /\ MonthKeyShape(all_sheet_names[j])
           /\ TwoTokens(all_sheet_names[j]) = <<ret[i], call.args[1]>>

\* The amount a cell stands for: a number itself, a numeric string its value
\* without the thousands separators, anything else 0.
CellAmount(c) ==
  IF c.k = "num" THEN c.v
  ELSE LET s == Strip(SelectSeq(c.v, LAMBDA ch : ch # ","))
       IN IF s # <<>> /\ \A i \in 1..Len(s) : s[i] \in Digits THEN DigitsValue(s) ELSE 0

\* the argument of the call made last
Arg == call.args[1]

\* the amount of category cat (lower case) in column Arg of "category total"
CatAmount(cat) ==
  LET rows == SelectSeq(ctotal.rows,
                        LAMBDA r : Lower(Strip(CellToStr(r[colCategory]))) = cat)
  IN IF rows = <<>> THEN 0 ELSE CellAmount(rows[1][Arg])

RECURSIVE SumOver(_)
SumOver(cats) ==
  IF cats = {} THEN 0
  ELSE LET c == CHOOSE c \in cats : TRUE IN CatAmount(c) + SumOver(cats \ {c})

\* twice needSum and twice wantSum, income and investment
NeedSum2 == 2 * SumOver(Range(NEED_CATS)) + CatAmount(<<"o","t","h","e","r","s">>)
WantSum2 == 2 * SumOver(Range(WANT_CATS)) + CatAmount(<<"o","t","h","e","r","s">>)
Income     == CatAmount(<<"i","n","c","o","m","e">>)
Investment == CatAmount(<<"i","n","v","e","s","t","m","e","n","t">>)

\* a call of get_allocation_breakdown( Arg ) that read "category total" and
\* found the columns Category and Arg
AllocationRead ==
  /\ call.op = "get_allocation_breakdown"
  /\ ctotal.ok /\ HasCol(ctotal, Arg) /\ HasCol(ctotal, colCategory)

\* the rows Need, Want, Investment with the raw sums, and the percentages of
\* spend total (0 when there is no spend) and of income (0 when there is none)
AllocationRows ==
  /\ [i \in 1..3 |-> ret.rows[i].Type] = <<"Need", "Want", "Investment">>
  /\ Len(ret.rows) = 3
  /\ [i \in 1..3 |-> ret.rows[i].Raw]
       = <<FromHalves(NeedSum2), FromHalves(WantSum2), FromNat(Investment)>>
  /\ [i \in 1..3 |-> ret.rows[i].Percent]
       = << IF NeedSum2 + WantSum2 > 0
              THEN FMul100(FDiv(NeedSum2, NeedSum2 + WantSum2)) ELSE FZero,
            IF NeedSum2 + WantSum2 > 0
              THEN FMul100(FDiv(WantSum2, NeedSum2 + WantSum2)) ELSE FZero,
            IF Income > 0 THEN FMul100(FDiv(Investment, Income)) ELSE FZero >>

\* f differs from 100 by at most 2^-44
NearHundred(f) ==
  LET h == FromNat(100).m
  IN f.e = 6 /\ BigLeq(h, BigAdd(f.m, <<4>>)) /\ BigLeq(f.m, BigAdd(h, <<4>>))

\* C3 as stated: a non-empty Allocation Breakdown has the rows Need, Want,
\* Investment with the raw sums and the percentages, and whenever spend
\* total > 0 the Need and Want percentages sum to exactly 100.
C3_PercentagesSumExactly ==
  (AllocationRead /\ ~IsEmpty(ret)) =>
    /\ AllocationRows
    /\ NeedSum2 + WantSum2 > 0
         => FAdd(ret.rows[1].Percent, ret.rows[2].Percent) = FromNat(100)

\* C3 amended: a non-empty Allocation Breakdown has the rows Need, Want,
\* Investment with Raw = (needSum, wantSum, investment), "others" split
\* 50/50, and Percent = (needSum/spend*100, wantSum/spend*100, or 0 and 0
\* when spend total is 0; investment/income*100, or 0 when income is 0),
\* computed in binary64 and not renormalized: whenever spend total > 0 the
\* Need and Want percentages sum to 100 up to floating-point rounding
\* (within 2^-44), not always to exactly 100.
C3_Allocation ==
  (AllocationRead /\ ~IsEmpty(ret)) =>
    /\ AllocationRows
    /\ NeedSum2 + WantSum2 > 0
         => NearHundred(FAdd(ret.rows[1].Percent, ret.rows[2].Percent))

\* the example: income 40000, need 20000, want 10000, others 2000 and
\* investment 4000 give 21000 and 11000, 65.625, 34.375 and 10 per cent
C3_Witness ==
  /\ AllocationRead
  /\ Income = 40000 /\ Investment = 4000 /\ CatAmount(<<"o","t","h","e","r","s">>) = 2000
  /\ [i \in 1..3 |-> ret.rows[i].Raw]
       = <<FromNat(21000), FromNat(11000), FromNat(4000)>>
  /\ [i \in 1..3 |-> ret.rows[i].Percent]
       = <<RoundBig(BigFromNat(525), -3, FALSE), RoundBig(BigFromNat(275), -3, FALSE),
           FromNat(10)>>

\* C4 as stated: the result is empty if and only if income, spend total and
\* investment are all non-positive.
C4_EmptyIffAllNonPositive ==
  AllocationRead =>
    (IsEmpty(ret) <=> (Income <= 0 /\ NeedSum2 + WantSum2 <= 0 /\ Investment <= 0))

\* C4 amended: the result is empty if and only if income, spend total and
\* investment are all non-positive or the three percentages sum to 0; for
\* amounts that are not negative: exactly when spend total is 0 and income
\* or investment is 0.  Otherwise it is the three-row table.
C4_EmptyIffNoPercentage ==
  AllocationRead =>
    /\ IsEmpty(ret) <=> (NeedSum2 + WantSum2 = 0 /\ (Income = 0 \/ Investment = 0))
    /\ ~IsEmpty(ret) => Len(ret.rows) = 3

\* an income without spend or investment: the result is empty
C4_Witness ==
  /\ AllocationRead
  /\ Income > 0 /\ NeedSum2 + WantSum2 = 0 /\ Investment = 0
  /\ IsEmpty(ret)

\* the value of a cell of "Budget": a number itself, a string of digits the
\* number it spells, anything else (blank, text, "1,200") 0
NumericValue(c) ==
  IF c.k = "num" THEN c.v
  ELSE IF c.v # <<>> /\ \A i \in 1..Len(c.v) : c.v[i] \in Digits THEN DigitsValue(c.v)
  ELSE 0

\* the rows of "Budget" whose Month is the string s
BudgetRows(s) ==
  SelectSeq(budget.rows, LAMBDA r : r[colMonth].k = "str" /\ r[colMonth].v = s)

\* the category columns of "Budget", in column order
CategoryColumns ==
  SelectSeq(budget.cols,
            LAMBDA c : /\ c # <<"M","o","n","t","h">> /\ c # <<"I","n","c","o","m","e">> /\ c # <<"D","i","f","f","e","r","e","n","c","e">>
                       /\ ~Contains(c, <<"U","n","n","a","m","e","d">>))

\* a call of get_budget_vs_actual( Arg ) that read "Budget" and its Month column
BvaRead ==
  /\ call.op = "get_budget_vs_actual"
  /\ budget.ok /\ HasCol(budget, colMonth)

\* C6: Budget vs Actual returns empty when "Budget" lacks the Target row or
\* the row of sheetName; otherwise for every category column (not Month,
\* Income, Difference, no "Unnamed" in the name), in column order, exactly
\* the two rows (column, "Budget", target value) and (column, "Actual",
\* actual value), non-numeric values as 0 and zero rows kept: 2 x (number of
\* category columns) rows.
C6_BudgetVsActual ==
  BvaRead =>
    IF BudgetRows(<<"T","a","r","g","e","t">>) = <<>> \/ BudgetRows(Arg) = <<>>
    THEN IsEmpty(ret)
    ELSE LET cats   == CategoryColumns
             target == BudgetRows(<<"T","a","r","g","e","t">>)[1]
             actual == BudgetRows(Arg)[1]
         IN /\ Len(ret.rows) = 2 * Len(cats)
            /\ \A i \in 1..Len(cats) :
                 /\ ret.rows[2 * i - 1] = [Category |-> cats[i], Type |-> "Budget",
                                           Amount |-> NumericValue(target[cats[i]])]
                 /\ ret.rows[2 * i]     = [Category |-> cats[i], Type |-> "Actual",
                                           Amount |-> NumericValue(actual[cats[i]])]

\* two category columns beside an "Unnamed" one: four rows, one of them 0
C6_Witness ==
  /\ BvaRead
  /\ Len(budget.cols) = 6 /\ Len(CategoryColumns) = 2
  /\ BudgetRows(<<"T","a","r","g","e","t">>) # <<>> /\ BudgetRows(Arg) # <<>>
  /\ Len(ret.rows) = 4
  /\ \E i \in 1..4 : ret.rows[i].Amount = 0
  /\ \E i \in 1..4 : ret.rows[i].Amount > 0

\* a call of get_monthly_kpis(month, year) that read "Budget" and found the
\* columns Month, Income and Difference
KpiRead ==
  /\ call.op = "get_monthly_kpis"
  /\ budget.ok
  /\ HasCol(budget, colMonth) /\ HasCol(budget, colIncome) /\ HasCol(budget, colDifference)

KpiRows == BudgetRows(call.args[1] \o <<" ">> \o call.args[2])

\* C5: Monthly KPIs are (income, income - difference, difference) of the
\* row of "Budget" whose Month is "{month} {year}", and (0, 0, 0) when
\* there is no such row; the amounts of the row are read as amounts are
\* (a string with thousands separators is its number, a blank is 0).
C5_MonthlyKpis ==
  KpiRead =>
    IF KpiRows = <<>> THEN ret = <<0, 0, 0>>
    ELSE LET income     == CellAmount(KpiRows[1][colIncome])
             difference == CellAmount(KpiRows[1][colDifference])
         IN ret = <<income, income - difference, difference>>

EngineOps == {"get_monthly_kpis", "get_category_expenses",
              "get_allocation_breakdown", "get_budget_vs_actual"}

\* the safe default of the operation called
SafeDefault == IF call.op = "get_monthly_kpis" THEN <<0, 0, 0>> ELSE EmptyFrame

\* the sheet the operation called reads
SourceSheet ==
  IF call.op \in {"get_monthly_kpis", "get_budget_vs_actual"} THEN budget ELSE ctotal

\* the row the operation called looks for is absent from a sheet that has
\* the Month column
RowAbsent ==
  /\ SourceSheet.ok /\ HasCol(budget, colMonth)
  /\ \/ call.op = "get_monthly_kpis" /\ KpiRows = <<>>
     \/ call.op = "get_budget_vs_actual"
          /\ (BudgetRows(<<"T","a","r","g","e","t">>) = <<>> \/ BudgetRows(Arg) = <<>>)

\* the column named by sheetName is absent from "category total"
MonthColumnAbsent ==
  /\ call.op \in {"get_category_expenses", "get_allocation_breakdown"}
  /\ SourceSheet.ok /\ ~HasCol(ctotal, Arg)

\* a column the operation called reads by its fixed name is absent
FixedColumnAbsent ==
  /\ SourceSheet.ok
  /\ \/ call.op \in {"get_monthly_kpis", "get_budget_vs_actual"}
          /\ ~HasCol(budget, colMonth)
     \/ call.op = "get_monthly_kpis" /\ HasCol(budget, colMonth) /\ KpiRows # <<>>
          /\ (~HasCol(budget, colIncome) \/ ~HasCol(budget, colDifference))
     \/ call.op \in {"get_category_expenses", "get_allocation_breakdown"}
          /\ HasCol(ctotal, Arg) /\ ~HasCol(ctotal, colCategory)

C1_BudgetVsActualRendered ==
  pc \in {"transactions", "done"} => "bva" \in rendered

\* C10: the name rebuilt from a year and a month offered by the sidebar,
\* m + " " + y, satisfies sheet_exists, and the "Sheet ... not found"
\* branch is never taken.
C10_SelectionRoundTrip ==
  /\ pc = "validate" => sheet_exists(all_sheet_names, selected.current_sheet_name)
  /\ \A i \in 1..Len(messages) : messages[i] # "Sheet not found!"

(*************************** specifications ********************************)
\* the Metadata Resolver over every list of titles
InitMeta ==
  /\ all_sheet_names \in NameLists
  /\ budget = NoSheet /\ ctotal = NoSheet
  /\ Fresh("idle")

NextMeta == GetAvailableYears \/ GetMonthsForYear \/ SheetExists \/ Rerun

SpecMeta == InitMeta /\ [][NextMeta]_vars

\* the Metrics Engine over the snapshots of its two source sheets
InitEngine ==
  /\ all_sheet_names = DefaultNames
  /\ \/ budget \in BudgetPool /\ ctotal = DefaultCt
     \/ budget = DefaultBudget /\ ctotal \in CtPool
  /\ Fresh("idle")

NextEngine ==
  \/ GetMonthlyKpis \/ GetCategoryExpenses \/ GetAllocationBreakdown
  \/ GetBudgetVsActual \/ Rerun

SpecEngine == InitEngine /\ [][NextEngine]_vars

\* one run of the dashboard script after another
InitRender ==
  /\ all_sheet_names \in NameLists
  /\ budget = DefaultBudget
  /\ ctotal \in RenderCts
  /\ Fresh("sidebar")

NextRender ==
  \/ Sidebar \/ Validate \/ RenderKpis \/ ChartCategory \/ ChartAllocation
  \/ ChartBudgetVsActual \/ RenderTransactions \/ Rerun

SpecRender == InitRender /\ [][NextRender]_vars

=============================================================================
